---- MODULE Spec2Model ----
(***************************************************************************)
(* Model of the aha-kit remote cache-aside layer (stores/redis.js): the     *)
(* simpleLock lease (aquire / release / extend), the pessimistic populate   *)
(* wrapper with its heartbeat, and cacheAsideFunc over a replica handle and *)
(* a master handle.  Time is a discrete clock; one tick is one backoff base *)
(* delay.  Every store command is one atomic step at the store.             *)
(***************************************************************************)
EXTENDS Integers, Sequences, FiniteSets, TLC

\* ------------------------------------------------------------------ bounds
MaxTime == 4
\* time is counted in units of one backoff base delay
LockTimeMs == 2
BaseDelayMs == 1
ReplicaTtlMs == 2
\* invocations of the compute function in one process
MaxComputes == 3
\* the longest populate key, in segments
MaxKeyLen == 3

\* ------------------------------------------------- parameters of the calls
Procs == {"A", "B"}
AquireTimeouts == {1, 3}
TtlChoices == {1, 3}
Jitters == {0, 1}
\* callers of the read-through functions inside one process
LCallers == {"c1", "c2", "c3"}
\* the argument lists of (...args)
ArgLists == {"argsA", "argsB"}
InAppTtls == {1, 3}
\* connections to the master that a caller can pass as its client
Clients == {"conn1", "conn2"}

Min(a, b) == IF a <= b THEN a ELSE b

RECURSIVE Pow2(_)
Pow2(n) == IF n = 0 THEN 1 ELSE 2 * Pow2(n - 1)

\* an interval of the whole lease time
RoundHalf_whole(n) == n

\* Math.round(n / 2) for a non-negative integer n
RoundHalf(n) == (n + 1) \div 2

\* ------------------------------------------------------------ JS values
\* A JS value is a record [t, n, s]: t its kind, n a number, s the character
\* codes of a string or the elements of an array.
Null == [t |-> "null", n |-> 0, s |-> <<>>]
DecodeError == [t |-> "err", n |-> 0, s |-> <<>>]
Num(x) == [t |-> "num", n |-> x, s |-> <<>>]
Str(cs) == [t |-> "str", n |-> 0, s |-> cs]
Arr(es) == [t |-> "arr", n |-> 0, s |-> es]

ObjVal == Arr(<<1, 2>>)
StrVal == Str(<<100>>)
ReplicaVal == Arr(<<7>>)
FResults == {ObjVal, StrVal}

\* ---------------------------------------------------------------- codec
needEncode(value) == value.t # "str" /\ value.t # "num"

\* msgpack-lite encode of the values used here: nil, fixarray of positive
\* fixints, fixstr, positive fixint.
msgpackEncode(obj) ==
  CASE obj.t = "null" -> <<192>>
    [] obj.t = "arr" -> <<144 + Len(obj.s)>> \o obj.s
    [] obj.t = "str" -> <<160 + Len(obj.s)>> \o obj.s
    [] OTHER -> <<obj.n>>

\* msgpack-lite decode reads the first value of the buffer.
msgpackDecode(b) ==
  IF Len(b) = 0 THEN DecodeError
  ELSE IF b[1] <= 127 THEN Num(b[1])
  ELSE IF b[1] = 192 THEN Null
  ELSE IF b[1] >= 144 /\ b[1] <= 159
    THEN IF Len(b) >= 1 + (b[1] - 144)
           THEN Arr(SubSeq(b, 2, 1 + (b[1] - 144))) ELSE DecodeError
  ELSE IF b[1] >= 160 /\ b[1] <= 191
    THEN IF Len(b) >= 1 + (b[1] - 160)
           THEN Str(SubSeq(b, 2, 1 + (b[1] - 160))) ELSE DecodeError
  ELSE DecodeError

\* msgpackEncDec.encode: strings and numbers are passed through unencoded;
\* the store keeps a string as its bytes.
msgpackEncDec_encode(obj) ==
  IF ~needEncode(obj)
    THEN (IF obj.t = "str" THEN obj.s ELSE <<obj.n>>)
    ELSE msgpackEncode(obj)

\* snappy: the compressed block starts with the length of the data, the data
\* follows as a literal; uncompress checks the length and gives the data back
snappyCompress(b) == <<Len(b)>> \o b
snappyUncompress(c) ==
  IF Len(c) >= 1 /\ c[1] = Len(c) - 1
    THEN [ok |-> TRUE, b |-> Tail(c)]
    ELSE [ok |-> FALSE, b |-> <<>>]

\* a marshall without the test for null
msgpackSnappyMarsh_marshall_noCheck(obj) ==
  [ok |-> TRUE, b |-> snappyCompress(msgpackEncDec_encode(obj))]

\* msgpackSnappyMarsh.marshall: throws 'marshall null data' on null or
\* undefined, else compresses what msgpackEncDec.encode gives
msgpackSnappyMarsh_marshall(obj) ==
  IF obj = Null
    THEN [ok |-> FALSE, b |-> <<>>]
    ELSE [ok |-> TRUE, b |-> snappyCompress(msgpackEncDec_encode(obj))]

\* msgpackSnappyMarsh.unmarshall of the bytes of a key that is there
msgpackSnappyMarsh_unmarshall(biData) ==
  LET u == snappyUncompress(biData) IN
    IF u.ok THEN msgpackDecode(u.b) ELSE DecodeError

\* marshallFunc / unmarshallFunc of the marshaller pair c
marshallFunc(c, obj) ==
  IF c = "msgpackSnappyMarsh"
    THEN msgpackSnappyMarsh_marshall(obj)
    ELSE [ok |-> TRUE, b |-> msgpackEncDec_encode(obj)]
unmarshallFunc(c, biData) ==
  IF c = "msgpackSnappyMarsh"
    THEN msgpackSnappyMarsh_unmarshall(biData)
    ELSE msgpackDecode(biData)

\* ---------------------------------------------------------------- store
\* An entry is [val, exp]; exp = 0 means the key is absent.  A present entry
\* always has exp > now (Tick removes the entries that reach their expiry).
Absent == [val |-> <<>>, exp |-> 0]
IsPresent(e) == e.exp > 0

\* a lock name that is the name itself
lockName_bare(name) == name

lockName(name) == <<"simpleLock">> \o name
Key == <<"key">>
\* the wrapper prefixes the key and aquire prefixes it again
LeaseKey == lockName(lockName(Key))
StoreKeys == {Key, LeaseKey}

WrongSecret == <<"wrong-secret">>

\* A key is a string; it is modelled as the sequence of its segments between
\* dots, so that 'simpleLock.' + name is the segment "simpleLock" put in front.
KeySegments == {"simpleLock", "key", "user"}
RECURSIVE KeysOfLen(_)
KeysOfLen(n) ==
  IF n = 0 THEN {<<>>}
  ELSE {<<t>> \o k : t \in KeySegments, k \in KeysOfLen(n - 1)}
PopulateKeys == UNION {KeysOfLen(n) : n \in 1..MaxKeyLen}

\* wrapWithPessimisticSimpleLock calls aquire with name: lockName(key), and
\* aquire sets lockName(name): the name under which the lease of key is stored
wrapperLeaseName(key) == lockName(lockName(key))

\* what is under a name of the store: nothing, a lease or a cached value
NoName == [name |-> <<>>, what |-> "none"]
nameGet(store, name) ==
  IF \E e \in store : e.name = name
    THEN CHOOSE e \in store : e.name = name
    ELSE NoName
namePut(store, name, what) ==
  {e \in store : e.name # name} \cup {[name |-> name, what |-> what]}

VARIABLES now, master, replica, pc, tmo, ttlMs, startTime, attempt, wakeAt,
          secret, extender, nextBeat, value, result, relPending, relResult,
          extResult, calls, touched, wrote, waited, direct, leaseLost,
          invAbsent, invPresent, unhandled,
          inAppStore, handles, lpc, lret, evictions,
          opc, oclient, ottl, ovalue, ores, watching, dirty, oconflict

\* the in-process cache of one process and its local callers
localVars == <<inAppStore, handles, lpc, lret, evictions>>
\* the callers of getOrSetWithOptimisticLock and the WATCH state of the
\* connections
optVars == <<opc, oclient, ottl, ovalue, ores, watching, dirty, oconflict>>

\* two calls of cacheAsideFunc with keys of their own in one store: the keys
\* they were called with, and the names in the store with what is under them
VARIABLES lockedKey, cachedKey, names
nameVars == <<lockedKey, cachedKey, names>>
\* the marshaller pair the cache-aside function was built with:
\* msgpackEncDec.encode / decode, or msgpackSnappyMarsh of create()
VARIABLE codec
\* the arguments each caller called the function of redisCacheReadThrough
\* with, and the arguments func was invoked with behind each handle
VARIABLES callArgs, funcArgs
argVars == <<callArgs, funcArgs>>

vars == <<now, master, replica, pc, tmo, ttlMs, startTime, attempt, wakeAt,
          secret, extender, nextBeat, value, result, relPending, relResult,
          extResult, calls, touched, wrote, waited, direct, leaseLost,
          invAbsent, invPresent, unhandled, localVars, optVars, nameVars, codec, argVars>>

procVars == <<pc, tmo, ttlMs, startTime, attempt, wakeAt, secret, extender,
              nextBeat, value, result, relPending, relResult, extResult,
              calls, touched, wrote, waited, unhandled>>
histVars == <<leaseLost, invAbsent, invPresent>>

\* --------------------------------------------------- store commands
\* SET without the NX option: the key is overwritten
setNX_overwrite(store, name, val, ttl) ==
  [res |-> "OK",
   store |-> [store EXCEPT ![name] = [val |-> val, exp |-> now + ttl]]]

\* the null reply of a refused SET NX is not recognised
setNX_alwaysOK(store, name, val, ttl) ==
  IF IsPresent(store[name])
    THEN [res |-> "OK", store |-> store]
    ELSE [res |-> "OK",
          store |-> [store EXCEPT ![name] = [val |-> val, exp |-> now + ttl]]]

\* SET key val NX, without the PX option: the key never expires
setNX_noExpiry(store, name, val, ttl) ==
  IF IsPresent(store[name])
    THEN [res |-> "null", store |-> store]
    ELSE [res |-> "OK",
          store |-> [store EXCEPT
                       ![name] = [val |-> val, exp |-> MaxTime + ttl + 1]]]

\* SET key val PX ttl NX
setNX(store, name, val, ttl) ==
  IF IsPresent(store[name])
    THEN [res |-> "null", store |-> store]
    ELSE [res |-> "OK",
          store |-> [store EXCEPT ![name] = [val |-> val, exp |-> now + ttl]]]

\* SET key val PX ttl
setPX(store, name, val, ttl) ==
  [store EXCEPT ![name] = [val |-> val, exp |-> now + ttl]]

\* a release that deletes the key without comparing the secret
releaseScript_noCheck(store, name, sec) ==
  IF IsPresent(store[name])
    THEN [res |-> 1, store |-> [store EXCEPT ![name] = Absent]]
    ELSE [res |-> 0, store |-> store]

\* a release that reports success to the owner and leaves the key in place
releaseScript_keep(store, name, sec) ==
  IF IsPresent(store[name]) /\ store[name].val = sec
    THEN [res |-> 1, store |-> store]
    ELSE [res |-> 0, store |-> store]

\* the release script: delete the key only when it holds the secret
releaseScript(store, name, sec) ==
  IF IsPresent(store[name]) /\ store[name].val = sec
    THEN [res |-> 1, store |-> [store EXCEPT ![name] = Absent]]
    ELSE [res |-> 0, store |-> store]

\* an extend that resets the expiry of whatever lease is there
extendScript_pexpire(store, name, sec, ttl) ==
  IF IsPresent(store[name])
    THEN [res |-> 1, store |-> setPX(store, name, store[name].val, ttl)]
    ELSE [res |-> 0, store |-> store]

\* an extend that sets the key to its own secret without the comparison
extendScript_upsert(store, name, sec, ttl) ==
  [res |-> 1, store |-> setPX(store, name, sec, ttl)]

\* the extend script: reset the expiry only when the key holds the secret
extendScript(store, name, sec, ttl) ==
  IF IsPresent(store[name]) /\ store[name].val = sec
    THEN [res |-> 1, store |-> setPX(store, name, sec, ttl)]
    ELSE [res |-> 0, store |-> store]

\* get(unmarshallFunc): GET, then decode; an absent key reads as null
get(store, name) ==
  IF IsPresent(store[name]) THEN msgpackDecode(store[name].val) ELSE Null

\* get(unmarshallFunc) with the marshaller pair c
getWith(c, store, name) ==
  IF IsPresent(store[name]) THEN unmarshallFunc(c, store[name].val) ELSE Null

\* passive expiry of the store at time t
expire(store, t) ==
  [k \in StoreKeys |->
     IF IsPresent(store[k]) /\ store[k].exp <= t THEN Absent ELSE store[k]]

\* ------------------------------------------------------------- retry
\* a retry loop without the budget test
retryExhausted_never(elapsed, maxTimeMs) == FALSE

\* tryWithBackoffRetry: the budget test and the capped backoff delay
\* a budget test that lets the loop go on when the budget is just used up
retryExhausted_strict(elapsed, maxTimeMs) == elapsed > maxTimeMs

retryExhausted(elapsed, maxTimeMs) == elapsed >= maxTimeMs

\* a backoff delay that ignores what is left of the budget
retryDelay_uncapped(att, jitter, remaining) ==
  BaseDelayMs * Pow2(att) + jitter

retryDelay(att, jitter, remaining) ==
  Min(BaseDelayMs * Pow2(att) + jitter, remaining)

\* ------------------------------------------------------------ results
\* src tells where a returned value came from: the replica read, the re-read
\* on the master, or the populate function
NoResult == [st |-> "none", v |-> Null, msg |-> "", src |-> ""]
Ok(v, src) == [st |-> "ok", v |-> v, msg |-> "", src |-> src]
Failed(m) == [st |-> "err", v |-> Null, msg |-> m, src |-> ""]
NoDirect == [op |-> "none", res |-> ""]

\* positions of a caller inside the body run under the lease
BodyPcs == {"getMaster", "invoke", "populating", "set", "finally"}

Holder(p) ==
  IsPresent(master[LeaseKey]) /\ master[LeaseKey].val = secret[p]

\* ----------------------------------------------- the in-process cache
\* The store holds, for the one key, the handle (promise) cached under it:
\* h is the index of the handle in handles (0: no entry) and exp its expiry
\* time (0: the entry has no TTL).
\* no call with arguments was made
InitArgs ==
  /\ callArgs = [c \in LCallers |-> ""]
  /\ funcArgs = <<>>

\* no call was made yet and the store is empty
InitNames ==
  /\ lockedKey = <<>>
  /\ cachedKey = <<>>
  /\ names = {}

NoEntry == [h |-> 0, exp |-> 0]
NoCall == [mode |-> "", h |-> 0, fresh |-> FALSE, pend |-> FALSE,
           st |-> "none", v |-> Null]
Pending == [st |-> "pending", v |-> Null]

InitLocal ==
  /\ inAppStore = NoEntry
  /\ handles = <<>>
  /\ lpc = [c \in LCallers |-> "idle"]
  /\ lret = [c \in LCallers |-> NoCall]
  /\ evictions = 0

\* ------------------------------------------ getOrSetWithOptimisticLock
ConflictMsg == "One (or more) of the watched keys has been changed"

InitOpt ==
  /\ opc = [p \in Procs |-> "idle"]
  /\ oclient = [p \in Procs |-> ""]
  /\ ottl = [p \in Procs |-> 0]
  /\ ovalue = [p \in Procs |-> Null]
  /\ ores = [p \in Procs |-> NoResult]
  /\ watching = [cl \in Clients |-> FALSE]
  /\ dirty = [cl \in Clients |-> FALSE]
  /\ oconflict = [p \in Procs |-> FALSE]

InitWith(c) ==
  /\ codec = c
  /\ now = 0
  /\ master = [k \in StoreKeys |-> Absent]
  /\ replica = [k \in StoreKeys |-> Absent]
  /\ pc = [p \in Procs |-> "idle"]
  /\ tmo = [p \in Procs |-> 0]
  /\ ttlMs = [p \in Procs |-> 0]
  /\ startTime = [p \in Procs |-> 0]
  /\ attempt = [p \in Procs |-> 0]
  /\ wakeAt = [p \in Procs |-> 0]
  /\ secret = [p \in Procs |-> <<>>]
  /\ extender = [p \in Procs |-> FALSE]
  /\ nextBeat = [p \in Procs |-> 0]
  /\ value = [p \in Procs |-> Null]
  /\ result = [p \in Procs |-> NoResult]
  /\ relPending = [p \in Procs |-> FALSE]
  /\ relResult = [p \in Procs |-> ""]
  /\ extResult = [p \in Procs |-> ""]
  /\ calls = [p \in Procs |-> 0]
  /\ touched = [p \in Procs |-> FALSE]
  /\ wrote = [p \in Procs |-> FALSE]
  /\ waited = [p \in Procs |-> FALSE]
  /\ direct = NoDirect
  /\ leaseLost = FALSE
  /\ invAbsent = 0
  /\ invPresent = FALSE
  /\ unhandled = [p \in Procs |-> {}]
  /\ InitLocal
  /\ InitOpt
  /\ InitNames
  /\ InitArgs

\* the cache-aside function as redis.test.js builds it
Init == InitWith("msgpackEncDec")

\* the cache-aside function as create() builds it
InitCreate == InitWith("msgpackSnappyMarsh")

\* ------------------------------------------------------- environment
\* One unit of time passes; the stores drop the entries that expire.
Tick ==
  /\ now < MaxTime
  /\ now' = now + 1
  /\ master' = expire(master, now + 1)
  /\ replica' = expire(replica, now + 1)
  /\ leaseLost' = (leaseLost \/
        (/\ IsPresent(master[LeaseKey])
         /\ master[LeaseKey].exp <= now + 1
         /\ \E p \in Procs : secret[p] = master[LeaseKey].val
                              /\ pc[p] \in BodyPcs))
  /\ UNCHANGED <<procVars, direct, invAbsent, invPresent>>
  /\ UNCHANGED <<localVars, optVars, nameVars, codec, argVars>>

\* The replica catches up with the master's cached entry.
Replicate ==
  /\ replica[Key] # master[Key]
  /\ replica' = [replica EXCEPT ![Key] = master[Key]]
  /\ UNCHANGED <<now, master, procVars, direct, histVars>>
  /\ UNCHANGED <<localVars, optVars, nameVars, codec, argVars>>

\* set(marshallFunc)({ client: replicaClient, key, value, ttlMs })
SetReplica ==
  /\ ~IsPresent(replica[Key])
  /\ replica' = setPX(replica, Key, marshallFunc(codec, ReplicaVal).b,
                      ReplicaTtlMs)
  /\ UNCHANGED <<now, master, procVars, direct, histVars>>
  /\ UNCHANGED <<localVars, optVars, nameVars, codec, argVars>>

\* ------------------------------------------------------ cacheAsideFunc
\* A caller issues cacheAsideFunc({funcWoArgs, key, ttlMs, aquireLockTimeoutMs})
\* and its replica read runs.  A hit returns; a miss enters the wrapper, which
\* generates the secret and starts the retry loop of aquire.
\* the replica hit does not return
afterReplicaRead_noReturn(v) == "trySet"

afterReplicaRead(v) == IF v # Null THEN "done" ELSE "trySet"

cacheAsideFunc(p, t, a) ==
  /\ pc[p] = "idle"
  /\ LET v == getWith(codec, replica, Key) IN
       IF v.t = "err"
         THEN /\ result' = [result EXCEPT ![p] = Failed("decode failed")]
              /\ pc' = [pc EXCEPT ![p] = "done"]
              /\ UNCHANGED <<secret, startTime, ttlMs, tmo>>
       ELSE IF afterReplicaRead(v) = "done"
         THEN /\ result' = [result EXCEPT ![p] = Ok(v, "replica")]
              /\ pc' = [pc EXCEPT ![p] = "done"]
              /\ UNCHANGED <<secret, startTime, ttlMs, tmo>>
         ELSE /\ secret' = [secret EXCEPT ![p] = <<p>>]
              /\ startTime' = [startTime EXCEPT ![p] = now]
              /\ ttlMs' = [ttlMs EXCEPT ![p] = t]
              /\ tmo' = [tmo EXCEPT ![p] = a]
              /\ pc' = [pc EXCEPT ![p] = afterReplicaRead(v)]
              /\ UNCHANGED result
  /\ UNCHANGED <<now, master, replica, attempt, wakeAt, extender, nextBeat,
                 value, relPending, relResult, extResult, calls, touched,
                 wrote, waited, direct, histVars>>
  /\ UNCHANGED <<unhandled, localVars, optVars, nameVars, codec, argVars>>

\* the rejection of aquire is swallowed and the body runs without the lease
wrapperAfterAquire_swallow(acquired) == "getMaster"

\* The wrapper goes on to the protected body only when aquire resolved;
\* a rejected aquire leaves the wrapper before the interval is created.
wrapperAfterAquire(acquired) == IF acquired THEN "getMaster" ELSE "done"

\* The retry attempt state (start time, attempt count, budget) is scoped to
\* one call of tryWithBackoffRetry and is discarded when it ends.
RetryOver(p) ==
  /\ startTime' = [startTime EXCEPT ![p] = 0]
  /\ attempt' = [attempt EXCEPT ![p] = 0]
  /\ wakeAt' = [wakeAt EXCEPT ![p] = 0]
  /\ tmo' = [tmo EXCEPT ![p] = 0]

\* One attempt of trySet inside tryWithBackoffRetry.  On success the wrapper
\* creates the extender interval and the body issues its GET on the master.
TrySet(p) ==
  /\ pc[p] = "trySet"
  /\ LET r == setNX(master, LeaseKey, secret[p], LockTimeMs)
         elapsed == now - startTime[p]
     IN
       /\ master' = r.store
       /\ IF r.res = "OK"
            THEN /\ pc' = [pc EXCEPT ![p] = wrapperAfterAquire(TRUE)]
                 /\ extender' = [extender EXCEPT ![p] = TRUE]
                 /\ nextBeat' = [nextBeat EXCEPT
                                   ![p] = now + RoundHalf(LockTimeMs)]
                 /\ RetryOver(p)
                 /\ UNCHANGED <<result, ttlMs>>
          ELSE IF retryExhausted(elapsed, tmo[p])
            THEN /\ pc' = [pc EXCEPT ![p] = wrapperAfterAquire(FALSE)]
                 /\ result' = [result EXCEPT ![p] = Failed("aquire failed")]
                 /\ RetryOver(p)
                 /\ ttlMs' = [ttlMs EXCEPT ![p] = 0]
                 /\ UNCHANGED <<extender, nextBeat>>
            ELSE /\ \E j \in Jitters :
                      wakeAt' = [wakeAt EXCEPT ![p] =
                         now + retryDelay(attempt[p], j, tmo[p] - elapsed)]
                 /\ attempt' = [attempt EXCEPT ![p] = attempt[p] + 1]
                 /\ pc' = [pc EXCEPT ![p] = "sleep"]
                 /\ UNCHANGED <<result, extender, nextBeat, startTime, tmo,
                                ttlMs>>
  /\ waited' = [waited EXCEPT ![p] =
       waited[p] \/ \E q \in Procs : Holder(q) /\ pc[q] = "populating"]
  /\ touched' = [touched EXCEPT ![p] = TRUE]
  /\ UNCHANGED <<now, replica, secret, value,
                 relPending, relResult, extResult, calls, wrote, direct,
                 histVars>>
  /\ UNCHANGED <<unhandled, localVars, optVars, nameVars, codec, argVars>>

\* The backoff sleep ends (never early, possibly late).
Wake(p) ==
  /\ pc[p] = "sleep"
  /\ now >= wakeAt[p]
  /\ pc' = [pc EXCEPT ![p] = "trySet"]
  /\ UNCHANGED <<now, master, replica, tmo, ttlMs, startTime, attempt, wakeAt,
                 secret, extender, nextBeat, value, result, relPending,
                 relResult, extResult, calls, touched, wrote, waited, direct,
                 histVars>>
  /\ UNCHANGED <<unhandled, localVars, optVars, nameVars, codec, argVars>>

\* a variant that retries whatever the kind of the error is
isAllowedError_any(kind) == TRUE

\* allowedErrorType: AquireLockError: only an error of that kind is retried
isAllowedError(kind) == kind = "AquireLockError"

\* The SET command of trySet rejects with an error of the store (connection
\* lost, server error): trySet rethrows it, it is not an AquireLockError,
\* and the retry executor fails with it at once; the store is unchanged.
TrySetError(p) ==
  /\ pc[p] = "trySet"
  /\ LET elapsed == now - startTime[p] IN
       IF ~isAllowedError("StoreError")
         THEN /\ pc' = [pc EXCEPT ![p] = wrapperAfterAquire(FALSE)]
              /\ result' = [result EXCEPT ![p] = Failed("store error")]
              /\ RetryOver(p)
              /\ ttlMs' = [ttlMs EXCEPT ![p] = 0]
       ELSE IF retryExhausted(elapsed, tmo[p])
         THEN /\ pc' = [pc EXCEPT ![p] = wrapperAfterAquire(FALSE)]
              /\ result' = [result EXCEPT ![p] = Failed("store error")]
              /\ RetryOver(p)
              /\ ttlMs' = [ttlMs EXCEPT ![p] = 0]
         ELSE /\ \E j \in Jitters :
                   wakeAt' = [wakeAt EXCEPT ![p] =
                      now + retryDelay(attempt[p], j, tmo[p] - elapsed)]
              /\ attempt' = [attempt EXCEPT ![p] = attempt[p] + 1]
              /\ pc' = [pc EXCEPT ![p] = "sleep"]
              /\ UNCHANGED <<result, startTime, tmo, ttlMs>>
  /\ touched' = [touched EXCEPT ![p] = TRUE]
  /\ UNCHANGED <<now, master, replica, secret, extender, nextBeat, value,
                 relPending, relResult, extResult, calls, wrote, waited,
                 direct, histVars>>
  /\ UNCHANGED <<unhandled, localVars, optVars, nameVars, codec, argVars>>

\* getOrSet: the re-read of the key on the master, inside the lease; a
\* non-null value is returned, null goes on to the populate function.
\* no re-check: the populate function runs whatever the master holds
afterMasterRead_noRecheck(v) == "invoke"

afterMasterRead(v) == IF v # Null THEN "finally" ELSE "invoke"

GetMaster(p) ==
  /\ pc[p] = "getMaster"
  /\ LET v == getWith(codec, master, Key) IN
       IF v.t = "err"
         THEN /\ result' = [result EXCEPT ![p] = Failed("decode failed")]
              /\ pc' = [pc EXCEPT ![p] = "finally"]
              /\ ttlMs' = [ttlMs EXCEPT ![p] = 0]
       ELSE IF afterMasterRead(v) = "finally"
         THEN /\ result' = [result EXCEPT ![p] = Ok(v, "master")]
              /\ pc' = [pc EXCEPT ![p] = "finally"]
              /\ ttlMs' = [ttlMs EXCEPT ![p] = 0]
         ELSE /\ pc' = [pc EXCEPT ![p] = afterMasterRead(v)]
              /\ UNCHANGED <<result, ttlMs>>
  /\ touched' = [touched EXCEPT ![p] = TRUE]
  /\ UNCHANGED <<now, master, replica, tmo, startTime, attempt, wakeAt,
                 secret, extender, nextBeat, value, relPending, relResult,
                 extResult, calls, wrote, waited, direct, histVars>>
  /\ UNCHANGED <<unhandled, localVars, optVars, nameVars, codec, argVars>>

\* getOrSet: value = await funcWoArgs() -- the populate function is invoked.
InvokeF(p) ==
  /\ pc[p] = "invoke"
  /\ pc' = [pc EXCEPT ![p] = "populating"]
  /\ calls' = [calls EXCEPT ![p] = calls[p] + 1]
  /\ invAbsent' = IF IsPresent(master[Key]) THEN invAbsent ELSE invAbsent + 1
  /\ invPresent' = (invPresent \/ IsPresent(master[Key]))
  /\ UNCHANGED <<now, master, replica, tmo, ttlMs, startTime, attempt, wakeAt,
                 secret, extender, nextBeat, value, result, relPending,
                 relResult, extResult, touched, wrote, waited, direct,
                 leaseLost>>
  /\ UNCHANGED <<unhandled, localVars, optVars, nameVars, codec, argVars>>

\* the rejection of the populate function is caught and getOrSet goes on to
\* its SET
afterPopulate_catch(settled) == "set"

\* the value of the populate function is returned without the SET
afterPopulate_skipSet(settled) == "finally"

\* getOrSet awaits the populate function: a fulfilled promise goes on to the
\* SET, a rejected one leaves getOrSet through the wrapper's finally.
afterPopulate(settled) == IF settled = "fulfilled" THEN "set" ELSE "finally"

\* The populate function settles with a value; set() marshalls it and
\* issues the SET.
FReturn(p, v) ==
  /\ pc[p] = "populating"
  /\ value' = [value EXCEPT ![p] = v]
  /\ pc' = [pc EXCEPT ![p] = afterPopulate("fulfilled")]
  /\ UNCHANGED <<now, master, replica, tmo, ttlMs, startTime, attempt, wakeAt,
                 secret, extender, nextBeat, result, relPending, relResult,
                 extResult, calls, touched, wrote, waited, direct, histVars>>
  /\ UNCHANGED <<unhandled, localVars, optVars, nameVars, codec, argVars>>

\* The populate function fails; the error leaves getOrSet.
FThrow(p) ==
  /\ pc[p] = "populating"
  /\ pc' = [pc EXCEPT ![p] = afterPopulate("rejected")]
  /\ IF afterPopulate("rejected") = "finally"
       THEN /\ result' = [result EXCEPT ![p] = Failed("populate failed")]
            /\ ttlMs' = [ttlMs EXCEPT ![p] = 0]
       ELSE UNCHANGED <<result, ttlMs>>
  /\ UNCHANGED <<now, master, replica, tmo, startTime, attempt, wakeAt,
                 secret, extender, nextBeat, value, relPending, relResult,
                 extResult, calls, touched, wrote, waited, direct, histVars>>
  /\ UNCHANGED <<unhandled, localVars, optVars, nameVars, codec, argVars>>

\* getOrSet: the SET of the marshalled value with the TTL, then return value.
SetMaster(p) ==
  /\ pc[p] = "set"
  /\ LET m == marshallFunc(codec, value[p]) IN
       IF m.ok
         THEN /\ master' = setPX(master, Key, m.b, ttlMs[p])
              /\ result' = [result EXCEPT ![p] = Ok(value[p], "populate")]
              /\ wrote' = [wrote EXCEPT ![p] = TRUE]
              /\ invAbsent' = 0
         ELSE /\ result' = [result EXCEPT
                              ![p] = Failed("marshall null data")]
              /\ UNCHANGED <<master, wrote, invAbsent>>
  /\ pc' = [pc EXCEPT ![p] = "finally"]
  /\ touched' = [touched EXCEPT ![p] = TRUE]
  /\ value' = [value EXCEPT ![p] = Null]
  /\ ttlMs' = [ttlMs EXCEPT ![p] = 0]
  /\ UNCHANGED <<now, replica, tmo, startTime, attempt, wakeAt, secret,
                 extender, nextBeat, relPending, relResult, extResult,
                 calls, waited, direct, leaseLost, invPresent>>
  /\ UNCHANGED <<unhandled, localVars, optVars, nameVars, codec, argVars>>

\* The populate function settles with null (or undefined).
FReturnNull(p) ==
  /\ pc[p] = "populating"
  /\ pc' = [pc EXCEPT ![p] = afterPopulate("fulfilled")]
  /\ UNCHANGED <<now, master, replica, tmo, ttlMs, startTime, attempt, wakeAt,
                 secret, extender, nextBeat, value, result, relPending,
                 relResult, extResult, calls, touched, wrote, waited, direct,
                 histVars>>
  /\ UNCHANGED <<unhandled, localVars, optVars, nameVars, codec, argVars>>

\* a finally block that issues the release and leaves the interval running
Finally_noClear(p) ==
  /\ pc[p] = "finally"
  /\ relPending' = [relPending EXCEPT ![p] = TRUE]
  /\ pc' = [pc EXCEPT ![p] = "done"]
  /\ UNCHANGED <<now, master, replica, tmo, ttlMs, startTime, attempt, wakeAt,
                 secret, extender, nextBeat, value, result, relResult,
                 extResult, calls, touched, wrote, waited, direct, histVars,
                 unhandled, localVars, optVars, nameVars, codec, argVars>>

\* finally { clearInterval(extender); release() } -- the release is issued
\* and not awaited; the result or error reaches the caller.
Finally(p) ==
  /\ pc[p] = "finally"
  /\ extender' = [extender EXCEPT ![p] = FALSE]
  /\ nextBeat' = [nextBeat EXCEPT ![p] = 0]
  /\ relPending' = [relPending EXCEPT ![p] = TRUE]
  /\ pc' = [pc EXCEPT ![p] = "done"]
  /\ UNCHANGED <<now, master, replica, tmo, ttlMs, startTime, attempt, wakeAt,
                 secret, value, result, relResult, extResult, calls,
                 touched, wrote, waited, direct, histVars>>
  /\ UNCHANGED <<unhandled, localVars, optVars, nameVars, codec, argVars>>

\* The release issued by the wrapper runs at the store.  Its promise is
\* neither awaited nor given a catch: a rejection is an unhandled rejection
\* of the caller's process.
ReleaseExec(p) ==
  /\ relPending[p]
  /\ LET r == releaseScript(master, LeaseKey, secret[p]) IN
       /\ master' = r.store
       /\ relResult' = [relResult EXCEPT
            ![p] = IF r.res = 0 THEN "release failed" ELSE "released"]
       /\ unhandled' = [unhandled EXCEPT ![p] =
            IF r.res = 0 THEN unhandled[p] \cup {"release failed"}
                         ELSE unhandled[p]]
  /\ relPending' = [relPending EXCEPT ![p] = FALSE]
  /\ touched' = [touched EXCEPT ![p] = TRUE]
  /\ UNCHANGED <<now, replica, pc, tmo, ttlMs, startTime, attempt, wakeAt,
                 secret, extender, nextBeat, value, result, extResult, calls,
                 wrote, waited, direct, histVars>>
  /\ UNCHANGED <<localVars, optVars, nameVars, codec, argVars>>

\* The extender interval fires (never early, possibly late) and its extend
\* runs at the store.  The interval callback drops the promise of extend: a
\* rejection is an unhandled rejection of the caller's process.
Heartbeat(p) ==
  /\ extender[p]
  /\ now >= nextBeat[p]
  /\ LET r == extendScript(master, LeaseKey, secret[p], LockTimeMs) IN
       /\ master' = r.store
       /\ extResult' = [extResult EXCEPT
            ![p] = IF r.res = 0 THEN "extend failed" ELSE "extended"]
       /\ unhandled' = [unhandled EXCEPT ![p] =
            IF r.res = 0 THEN unhandled[p] \cup {"extend failed"}
                         ELSE unhandled[p]]
  /\ nextBeat' = [nextBeat EXCEPT ![p] = now + RoundHalf(LockTimeMs)]
  /\ touched' = [touched EXCEPT ![p] = TRUE]
  /\ UNCHANGED <<now, replica, pc, tmo, ttlMs, startTime, attempt, wakeAt,
                 secret, extender, value, result, relPending, relResult,
                 calls, wrote, waited, direct, histVars>>
  /\ UNCHANGED <<localVars, optVars, nameVars, codec, argVars>>

\* An unhandled rejection is raised by the runtime as an uncaught exception
\* unless the host process handles it; without a handler the process of the
\* caller ends while its call is still in the wrapper's body.
Crash(p) ==
  /\ unhandled[p] # {}
  /\ pc[p] \in BodyPcs
  /\ pc' = [pc EXCEPT ![p] = "crashed"]
  /\ extender' = [extender EXCEPT ![p] = FALSE]
  /\ nextBeat' = [nextBeat EXCEPT ![p] = 0]
  /\ value' = [value EXCEPT ![p] = Null]
  /\ ttlMs' = [ttlMs EXCEPT ![p] = 0]
  /\ UNCHANGED <<now, master, replica, tmo, startTime, attempt, wakeAt,
                 secret, result, relPending, relResult, extResult, calls,
                 touched, wrote, waited, direct, histVars, unhandled,
                 localVars, optVars, nameVars, codec, argVars>>

\* The process of a holder stops inside the protected body (it is killed,
\* or its host fails): its interval is gone with it, no finally runs and no
\* release is issued; what it wrote to the store stays there.
HolderStops(p) ==
  /\ pc[p] \in BodyPcs
  /\ pc' = [pc EXCEPT ![p] = "crashed"]
  /\ extender' = [extender EXCEPT ![p] = FALSE]
  /\ nextBeat' = [nextBeat EXCEPT ![p] = 0]
  /\ value' = [value EXCEPT ![p] = Null]
  /\ ttlMs' = [ttlMs EXCEPT ![p] = 0]
  /\ UNCHANGED <<now, master, replica, tmo, startTime, attempt, wakeAt,
                 secret, result, relPending, relResult, extResult, calls,
                 touched, wrote, waited, direct, histVars, unhandled,
                 localVars, optVars, nameVars, codec, argVars>>

\* ------------------------------------------- direct calls of simpleLock
\* simpleLock.release({ masterClient, name, secret }) with a foreign secret
DirectRelease(s) ==
  /\ direct.op # "release"
  /\ LET r == releaseScript(master, LeaseKey, s) IN
       /\ master' = r.store
       /\ direct' = [op |-> "release",
                     res |-> IF r.res = 0 THEN "release failed" ELSE "released"]
  /\ UNCHANGED <<now, replica, procVars, histVars>>
  /\ UNCHANGED <<localVars, optVars, nameVars, codec, argVars>>

\* simpleLock.extend({ masterClient, name, secret, ttlMs }) with a foreign secret
DirectExtend(s, t) ==
  /\ direct.op # "extend"
  /\ LET r == extendScript(master, LeaseKey, s, t) IN
       /\ master' = r.store
       /\ direct' = [op |-> "extend",
                     res |-> IF r.res = 0 THEN "extend failed" ELSE "extended"]
  /\ UNCHANGED <<now, replica, procVars, histVars>>
  /\ UNCHANGED <<localVars, optVars, nameVars, codec, argVars>>

\* ------------------------------------------------------ redisCacheWrite
\* what String(promise) is: the text a client that stringifies its
\* arguments stores for the pending promise, cut to its first byte '['
PromiseText == <<91>>

\* redisCacheWrite({ data, key, ttlMs }): marshall(data) is the promise of
\* compressAsync and is handed to SET without an await, so the client gets
\* a promise where it takes a string or a buffer: it either rejects the
\* argument, and nothing is stored, or stores the promise's text
redisCacheWrite(data, t) ==
  /\ codec = "msgpackSnappyMarsh"
  /\ direct.op # "redisCacheWrite"
  /\ \/ /\ direct' = [op |-> "redisCacheWrite", res |-> "TypeError"]
        /\ UNCHANGED master
     \/ /\ direct' = [op |-> "redisCacheWrite", res |-> "OK"]
        /\ master' = setPX(master, Key, PromiseText, t)
  /\ UNCHANGED <<now, replica, procVars, histVars>>
  /\ UNCHANGED <<localVars, optVars, nameVars, codec, argVars>>

\* ------------------------------------------------ local read-through
\* every call invokes the compute function, whatever the store holds
lruMiss_always(cached) == TRUE

\* a cache that serves a promise only while it is pending
lruMiss_settled(cached) ==
  cached.h = 0 \/ handles[cached.h].st # "pending"

\* inAppLru cacheAsideFunc: if (cached == undefined)
lruMiss(cached) == cached.h = 0

\* an entry set with ttl 0 never expires
lruSet(h, ttl) == [h |-> h, exp |-> IF ttl = 0 THEN 0 ELSE now + ttl]

\* inAppLru cacheAsideFunc: store.get(key); on a miss funcWoArgs() is called
\* and the promise it returns is stored before it settles; the cached
\* promise is returned.
inAppCacheAsideFunc(c, mode, ttl) ==
  /\ lpc[c] = "idle"
  /\ IF lruMiss(inAppStore)
       THEN /\ Len(handles) < MaxComputes
            /\ handles' = Append(handles, Pending)
            /\ inAppStore' = lruSet(Len(handles) + 1, ttl)
            /\ lret' = [lret EXCEPT ![c] =
                 [mode |-> mode, h |-> Len(handles) + 1, fresh |-> TRUE,
                  pend |-> TRUE, st |-> "none", v |-> Null]]
       ELSE /\ lret' = [lret EXCEPT ![c] =
                 [mode |-> mode, h |-> inAppStore.h, fresh |-> FALSE,
                  pend |-> handles[inAppStore.h].st = "pending",
                  st |-> "none", v |-> Null]]
            /\ UNCHANGED <<handles, inAppStore>>
  /\ lpc' = [lpc EXCEPT ![c] = IF mode = "only" THEN "awaiting" ELSE "done"]
  /\ UNCHANGED evictions

\* redisCacheReadThrough({ func, key, ttlMs, inAppTtlMs })(): the promise of
\* the remote cache-aside call goes through the in-process cache
redisCacheReadThrough(c, inAppTtlMs) ==
  /\ inAppCacheAsideFunc(c, "through", inAppTtlMs)
  /\ UNCHANGED <<now, master, replica, procVars, direct, histVars, optVars, nameVars, codec, argVars>>

\* redisCacheOnlyReadThrough: the same call with inAppTtlMs 0, then the
\* await of the cached promise
redisCacheOnlyReadThrough(c) ==
  /\ inAppCacheAsideFunc(c, "only", 0)
  /\ UNCHANGED <<now, master, replica, procVars, direct, histVars, optVars, nameVars, codec, argVars>>

\* redisCacheOnlyReadThrough after the await: a fulfilled promise is
\* followed by removeInApp(inAppStore)(key) and the return of the value; a
\* rejected one throws at the await and the remove is not reached.
OnlyResume(c) ==
  /\ lpc[c] = "awaiting"
  /\ handles[lret[c].h].st # "pending"
  /\ lpc' = [lpc EXCEPT ![c] = "done"]
  /\ lret' = [lret EXCEPT ![c].st = handles[lret[c].h].st,
                           ![c].v = handles[lret[c].h].v]
  /\ IF handles[lret[c].h].st = "ok"
       THEN /\ inAppStore' = NoEntry
            /\ evictions' = evictions + 1
       ELSE UNCHANGED <<inAppStore, evictions>>
  /\ UNCHANGED <<handles, now, master, replica, procVars, direct, histVars,
                 optVars, nameVars, codec, argVars>>

\* a cache that drops the entry of a promise that rejects
afterSettle_dropFailed(st, entry) == IF st = "err" THEN NoEntry ELSE entry

\* store.set(key, cached, _setOpts) stores the promise as it is: no handler
\* is attached to it, and the entry stays whatever the promise settles with
afterSettle(st, entry) == entry

\* the remote cache-aside call behind a handle settles
Settle(h, st, v) ==
  /\ h \in 1..Len(handles)
  /\ handles[h].st = "pending"
  /\ handles' = [handles EXCEPT ![h] = [st |-> st, v |-> v]]
  /\ inAppStore' = IF inAppStore.h = h
                     THEN afterSettle(st, inAppStore) ELSE inAppStore
  /\ UNCHANGED <<lpc, lret, evictions, now, master, replica,
                 procVars, direct, histVars, optVars, nameVars, codec, argVars>>

\* inAppLru remove: store.delete(key)
remove ==
  /\ inAppStore # NoEntry
  /\ inAppStore' = NoEntry
  /\ evictions' = evictions + 1
  /\ UNCHANGED <<handles, lpc, lret, now, master, replica, procVars, direct,
                 histVars, optVars, nameVars, codec, argVars>>

\* inAppLru purge: store.clear()
purge ==
  /\ inAppStore # NoEntry
  /\ inAppStore' = NoEntry
  /\ evictions' = evictions + 1
  /\ UNCHANGED <<handles, lpc, lret, now, master, replica, procVars, direct,
                 histVars, optVars, nameVars, codec, argVars>>

\* One unit of time passes in the process; an entry that reaches its TTL is
\* no longer served.
LocalTick ==
  /\ now < MaxTime
  /\ now' = now + 1
  /\ IF inAppStore.exp # 0 /\ inAppStore.exp <= now + 1
       THEN inAppStore' = NoEntry /\ evictions' = evictions + 1
       ELSE UNCHANGED <<inAppStore, evictions>>
  /\ UNCHANGED <<handles, lpc, lret, master, replica, procVars, direct,
                 histVars, optVars, nameVars, codec, argVars>>

NextLocal ==
  \/ LocalTick
  \/ \E c \in LCallers, t \in InAppTtls : redisCacheReadThrough(c, t)
  \/ \E c \in LCallers : redisCacheOnlyReadThrough(c)
  \/ \E c \in LCallers : OnlyResume(c)
  \/ \E h \in 1..MaxComputes, v \in FResults : Settle(h, "ok", v)
  \/ \E h \in 1..MaxComputes : Settle(h, "err", Null)
  \/ remove
  \/ purge

SpecLocal == Init /\ [][NextLocal]_vars

\* ------------------------------------- read-through with arguments
\* func(...args): what func computes depends on its arguments
func(args) == IF args = "argsA" THEN ObjVal ELSE StrVal

\* a cache key made of the key and the arguments
cacheKey_withArgs(key, args) == key \o <<args>>

\* inAppCacheReadThrough({ funcWoArgs: redisWrappedWoArgsFunc, key, ttlMs }):
\* the entry is looked up and stored under key; args is only inside funcWoArgs
cacheKey(key, args) == key

\* redisCacheReadThrough({ func, key, ttlMs, inAppTtlMs })(...args); a key
\* other than Key has an entry of its own, which is not there yet
redisCacheReadThroughArgs(c, inAppTtlMs, args) ==
  /\ callArgs' = [callArgs EXCEPT ![c] = args]
  /\ IF cacheKey(Key, args) = Key
       THEN /\ inAppCacheAsideFunc(c, "through", inAppTtlMs)
            /\ funcArgs' = IF lruMiss(inAppStore)
                             THEN Append(funcArgs, args) ELSE funcArgs
       ELSE /\ lpc[c] = "idle"
            /\ Len(handles) < MaxComputes
            /\ handles' = Append(handles, Pending)
            /\ funcArgs' = Append(funcArgs, args)
            /\ lret' = [lret EXCEPT ![c] =
                 [mode |-> "through", h |-> Len(handles) + 1,
                  fresh |-> TRUE, pend |-> TRUE, st |-> "none", v |-> Null]]
            /\ lpc' = [lpc EXCEPT ![c] = "done"]
            /\ UNCHANGED <<inAppStore, evictions>>
  /\ UNCHANGED <<now, master, replica, procVars, direct, histVars, optVars,
                 nameVars, codec>>

\* the remote cache-aside call behind a handle resolves with what func
\* computed for the arguments it was invoked with
SettleArgs(h) ==
  /\ h \in 1..Len(handles)
  /\ handles[h].st = "pending"
  /\ handles' = [handles EXCEPT ![h] = [st |-> "ok", v |-> func(funcArgs[h])]]
  /\ UNCHANGED <<inAppStore, lpc, lret, evictions, now, master, replica,
                 procVars, direct, histVars, optVars, nameVars, codec,
                 argVars>>

NextArgs ==
  \/ LocalTick
  \/ \E c \in LCallers, t \in InAppTtls, a \in ArgLists :
        redisCacheReadThroughArgs(c, t, a)
  \/ \E h \in 1..MaxComputes : SettleArgs(h)
  \/ remove

SpecArgs == Init /\ [][NextArgs]_vars

\* ------------------------------------------------- optimistic path
\* a client.unwatch() that does nothing
unwatch_skip(cl) == UNCHANGED <<watching, dirty>>

\* The WATCH state belongs to the connection: watching[cl] says that the
\* connection watches the key, dirty[cl] that the key was modified since.
\* UNWATCH, and EXEC whatever its outcome, clear both.
unwatch(cl) ==
  /\ watching' = [watching EXCEPT ![cl] = FALSE]
  /\ dirty' = [dirty EXCEPT ![cl] = FALSE]

\* EXEC gives the null reply when a key watched on the connection was
\* modified since its WATCH
execAborted(cl) == watching[cl] /\ dirty[cl]

\* a variant that starts over when the commit was rejected
onExecNull_retry == "get"

\* if (result === null) throw new Error(...): the call ends with the
\* conflict error, nothing in the function loops back
onExecNull == "done"

\* a read whose value is never taken for a hit
optHit_never(v) == FALSE

\* if (value != null): the key was found
optHit(v) == v # Null

\* await client.watch(key)
OptWatch(p, cl, t) ==
  /\ opc[p] = "idle"
  /\ opc' = [opc EXCEPT ![p] = "get"]
  /\ oclient' = [oclient EXCEPT ![p] = cl]
  /\ ottl' = [ottl EXCEPT ![p] = t]
  /\ watching' = [watching EXCEPT ![cl] = TRUE]
  /\ dirty' = [dirty EXCEPT ![cl] = watching[cl] /\ dirty[cl]]
  /\ UNCHANGED <<ovalue, ores, oconflict, now, master, replica, procVars,
                 direct, histVars, localVars, nameVars, codec, argVars>>

\* value = await get(...); a value that is there is returned after
\* client.unwatch(); on null the populate function is invoked
OptGet(p) ==
  /\ opc[p] = "get"
  /\ LET v == get(master, Key) IN
       IF v.t = "err"
         THEN /\ ores' = [ores EXCEPT ![p] = Failed("decode failed")]
              /\ opc' = [opc EXCEPT ![p] = "done"]
              /\ unwatch(oclient[p])
       ELSE IF optHit(v)
         THEN /\ ores' = [ores EXCEPT ![p] = Ok(v, "master")]
              /\ opc' = [opc EXCEPT ![p] = "done"]
              /\ unwatch(oclient[p])
         ELSE /\ opc' = [opc EXCEPT ![p] = "populating"]
              /\ UNCHANGED <<ores, watching, dirty>>
  /\ UNCHANGED <<oclient, ottl, ovalue, oconflict, now, master, replica,
                 procVars, direct, histVars, localVars, nameVars, codec, argVars>>

\* value = await funcWoArgs() settles with a value
OptFReturn(p, v) ==
  /\ opc[p] = "populating"
  /\ ovalue' = [ovalue EXCEPT ![p] = v]
  /\ opc' = [opc EXCEPT ![p] = "exec"]
  /\ UNCHANGED <<oclient, ottl, ores, watching, dirty, oconflict, now, master,
                 replica, procVars, direct, histVars, localVars, nameVars, codec, argVars>>

\* funcWoArgs rejects: catch, client.unwatch(), throw error
OptFThrow(p) ==
  /\ opc[p] = "populating"
  /\ ores' = [ores EXCEPT ![p] = Failed("populate failed")]
  /\ opc' = [opc EXCEPT ![p] = "done"]
  /\ unwatch(oclient[p])
  /\ UNCHANGED <<oclient, ottl, ovalue, oconflict, now, master, replica,
                 procVars, direct, histVars, localVars, nameVars, codec, argVars>>

\* multi = client.multi(); set(...)({ client: multi, ... }); multi.exec():
\* a null reply is thrown as the conflict error (catch: unwatch, rethrow);
\* otherwise the SET is committed, which marks the key modified on every
\* other connection that watches it, and value is returned.
OptExec(p) ==
  /\ opc[p] = "exec"
  /\ opc' = [opc EXCEPT ![p] =
              IF execAborted(oclient[p]) THEN onExecNull ELSE "done"]
  /\ watching' = [watching EXCEPT ![oclient[p]] = FALSE]
  /\ IF execAborted(oclient[p])
       THEN /\ ores' = [ores EXCEPT ![p] = Failed(ConflictMsg)]
            /\ dirty' = [dirty EXCEPT ![oclient[p]] = FALSE]
            /\ UNCHANGED <<master, oconflict>>
       ELSE /\ master' = setPX(master, Key, msgpackEncDec_encode(ovalue[p]),
                               ottl[p])
            /\ ores' = [ores EXCEPT ![p] = Ok(ovalue[p], "populate")]
            /\ dirty' = [cl \in Clients |->
                 cl # oclient[p] /\ (dirty[cl] \/ watching[cl])]
            /\ oconflict' = [q \in Procs |->
                 oconflict[q]
                 \/ (q # p /\ opc[q] \in {"populating", "exec"})]
  /\ UNCHANGED <<oclient, ottl, ovalue, now, replica, procVars, direct,
                 histVars, localVars, nameVars, codec, argVars>>

\* a command of the call (the GET, or the EXEC of the transaction) is
\* rejected by the store: catch, client.unwatch(), throw error
OptStoreError(p) ==
  /\ opc[p] \in {"get", "exec"}
  /\ ores' = [ores EXCEPT ![p] = Failed("store error")]
  /\ opc' = [opc EXCEPT ![p] = "done"]
  /\ unwatch(oclient[p])
  /\ UNCHANGED <<oclient, ottl, ovalue, oconflict, now, master, replica,
                 procVars, direct, histVars, localVars, nameVars, codec, argVars>>

NextOpt ==
  \/ \E p \in Procs, cl \in Clients, t \in TtlChoices : OptWatch(p, cl, t)
  \/ \E p \in Procs : OptGet(p)
  \/ \E p \in Procs, v \in FResults : OptFReturn(p, v)
  \/ \E p \in Procs : OptFThrow(p)
  \/ \E p \in Procs : OptExec(p)

SpecOpt == Init /\ [][NextOpt]_vars

\* ------------------------------------------------- names in the store
CoreUnchanged == UNCHANGED <<now, master, replica, procVars, direct,
                              histVars, localVars, optVars, codec, argVars>>

\* two calls are made, one that will take the lease of key k and one that
\* will write the cached value of key c
NameCalls(k, c) ==
  /\ lockedKey = <<>> /\ cachedKey = <<>>
  /\ lockedKey' = k
  /\ cachedKey' = c
  /\ UNCHANGED names
  /\ CoreUnchanged

\* aquire of the wrapper for lockedKey: SET name secret PX ttl NX, refused
\* when something is under the name already
NameAquire ==
  /\ lockedKey # <<>>
  /\ \A e \in names : e.what # "lease"  \* the call is made once
  /\ nameGet(names, wrapperLeaseName(lockedKey)) = NoName
  /\ names' = namePut(names, wrapperLeaseName(lockedKey), "lease")
  /\ UNCHANGED <<lockedKey, cachedKey>>
  /\ CoreUnchanged

\* set of the cached value of cachedKey: SET key value PX ttl, which
\* overwrites whatever is under the key
NameSet ==
  /\ cachedKey # <<>>
  /\ nameGet(names, cachedKey).what # "value"
  /\ names' = namePut(names, cachedKey, "value")
  /\ UNCHANGED <<lockedKey, cachedKey>>
  /\ CoreUnchanged

NextNames ==
  \/ \E k, c \in PopulateKeys : NameCalls(k, c)
  \/ NameAquire
  \/ NameSet

SpecNames == Init /\ [][NextNames]_vars

\* the optimistic callers with a store that can fail their commands
NextOptFault ==
  \/ NextOpt
  \/ \E p \in Procs : OptStoreError(p)

SpecOptFault == Init /\ [][NextOptFault]_vars

NextCore ==
  \/ Tick
  \/ \E p \in Procs, t \in TtlChoices, a \in AquireTimeouts :
        cacheAsideFunc(p, t, a)
  \/ \E p \in Procs : TrySet(p)
  \/ \E p \in Procs : Wake(p)
  \/ \E p \in Procs : GetMaster(p)
  \/ \E p \in Procs : InvokeF(p)
  \/ \E p \in Procs, v \in FResults : FReturn(p, v)
  \/ \E p \in Procs : FThrow(p)
  \/ \E p \in Procs : SetMaster(p)
  \/ \E p \in Procs : Finally(p)
  \/ \E p \in Procs : ReleaseExec(p)
  \/ \E p \in Procs : Heartbeat(p)
  \/ \E p \in Procs : Crash(p)

\* the callers of cacheAsideFunc over a replica and a master
Next ==
  \/ NextCore
  \/ Replicate
  \/ SetReplica

Spec == Init /\ [][Next]_vars

\* the same callers next to direct users of simpleLock.release / extend
NextLock ==
  \/ NextCore
  \/ DirectRelease(WrongSecret)
  \/ \E t \in TtlChoices : DirectExtend(WrongSecret, t)

SpecLock == Init /\ [][NextLock]_vars

\* The callers under the scheduling of the runtime: time passes, a pending
\* attempt of trySet is made, and a backoff timer that is due fires.
AquireFairness ==
  /\ WF_vars(Tick)
  /\ \A p \in Procs : WF_vars(TrySet(p)) /\ WF_vars(Wake(p))

SpecFair == Init /\ [][NextCore]_vars /\ AquireFairness

\* The same scheduling with every continuation of a caller run once it is
\* ready: the store answers each command, the populate function settles with
\* a value, and the interval and the release that was issued are executed.
BodyFairness ==
  \A p \in Procs :
    /\ WF_vars(GetMaster(p))
    /\ WF_vars(InvokeF(p))
    /\ WF_vars(\E v \in FResults : FReturn(p, v))
    /\ WF_vars(SetMaster(p))
    /\ WF_vars(Finally(p))
    /\ WF_vars(ReleaseExec(p))

SpecProgress ==
  Init /\ [][NextCore]_vars /\ AquireFairness /\ BodyFairness

\* the callers in an environment with faults: a holder's process can stop
\* anywhere in its body, and the store can fail the SET of an attempt
NextFault ==
  \/ NextCore
  \/ \E p \in Procs : HolderStops(p)
  \/ \E p \in Procs : TrySetError(p)

SpecFault == Init /\ [][NextFault]_vars /\ AquireFairness

\* the callers of the cache-aside function that create() builds, with
\* populate functions that may yield null
NextCreate ==
  \/ NextCore
  \/ \E p \in Procs : FReturnNull(p)

SpecCreate == InitCreate /\ [][NextCreate]_vars

\* both marshaller pairs: the callers of the cache-aside function built
\* with either, and redisCacheWrite next to them
Codecs == {"msgpackEncDec", "msgpackSnappyMarsh"}

InitCodec == \E c \in Codecs : InitWith(c)

NextCodec ==
  \/ NextCreate
  \/ \E d \in FResults, t \in TtlChoices : redisCacheWrite(d, t)

SpecCodec == InitCodec /\ [][NextCodec]_vars

\* ====================================================================
\* Properties
\* ====================================================================
Lease == master[LeaseKey]
InFlight == {p \in Procs : pc[p] \in {"populating", "set"}}

\* steps of the model, recognised by what they change
TrySetStep(p) == pc[p] = "trySet" /\ pc'[p] # "trySet"
AquiredStep(p) == pc[p] = "trySet" /\ pc'[p] = "getMaster"
ReleaseStep(p) == relPending[p] /\ ~relPending'[p]
HeartbeatStep(p) == extender[p] /\ extender'[p] /\ nextBeat'[p] # nextBeat[p]
ExpiryStep == now' = now + 1 /\ Lease.exp <= now + 1

\* C1 (as stated): the populate function is invoked at most once while the
\* key is absent from the master, and never while the key is present.
C1_InvokedOnceWhileAbsent == invAbsent <= 1 /\ ~invPresent

\* C1 (amended): as long as no lease expired under a caller that was still
\* running its body, at most one invocation of the populate function is in
\* progress (invoked, result not yet written) at any time over all callers,
\* and no invocation starts while the key is present on the master.
C1_OneInvocationInProgress ==
  ~leaseLost => (Cardinality(InFlight) <= 1 /\ ~invPresent)

\* a second caller went to the master after the first populated, found the
\* value there and did not invoke its populate function
C1_Witness ==
  /\ ~leaseLost
  /\ calls["A"] = 1 /\ wrote["A"]
  /\ pc["B"] = "done" /\ result["B"].src = "master" /\ calls["B"] = 0

\* C2: simpleLock.release with a secret that is not the one stored under the
\* lease key (or with the key absent) fails with 'release failed' and leaves
\* the store unchanged; with the lease still present a set-if-absent on it
\* is refused and a release with the stored secret succeeds.
C2_ReleaseWrongSecret ==
  [][(direct.op # "release" /\ direct'.op = "release")
       => /\ direct'.res = "release failed"
          /\ master' = master
          /\ IsPresent(Lease) =>
               /\ setNX(master', LeaseKey, <<"other">>, LockTimeMs).res = "null"
               /\ releaseScript(master', LeaseKey, Lease.val).res = 1
     ]_vars

C2_Witness ==
  /\ direct = [op |-> "release", res |-> "release failed"]
  /\ \E p \in Procs : Holder(p) /\ pc[p] \in BodyPcs

\* C3: simpleLock.extend with a secret that is not the one stored under the
\* lease key (or with the key absent) fails with 'extend failed' and changes
\* neither the stored secret nor the expiry of the lease.
C3_ExtendWrongSecret ==
  [][(direct.op # "extend" /\ direct'.op = "extend")
       => /\ direct'.res = "extend failed"
          /\ master' = master
     ]_vars

C3_Witness ==
  /\ direct = [op |-> "extend", res |-> "extend failed"]
  /\ \E p \in Procs : Holder(p) /\ pc[p] \in BodyPcs

\* C4: an aquire attempt succeeds only when the lease key is absent at its
\* set-if-absent, and then stores its own secret with the lease TTL; a failed
\* attempt leaves the store unchanged; and a present lease loses its secret
\* only by expiry or by the release of its owner, so two aquires succeed only
\* with a release or an expiry of the first lease in between.
C4_AquireExclusive ==
  [][/\ \A p \in Procs :
          /\ AquiredStep(p) =>
               /\ ~IsPresent(Lease)
               /\ master'[LeaseKey] =
                    [val |-> secret[p], exp |-> now + LockTimeMs]
          /\ (TrySetStep(p) /\ ~AquiredStep(p)) =>
               /\ IsPresent(Lease)
               /\ master' = master
     /\ (IsPresent(Lease) /\ master'[LeaseKey].val # Lease.val) =>
          /\ ~IsPresent(master'[LeaseKey])
          /\ \/ ExpiryStep
             \/ \E q \in Procs : ReleaseStep(q) /\ secret[q] = Lease.val
    ]_vars

\* both callers have acquired the lease, one after the other
C4_Witness ==
  /\ \A p \in Procs : pc[p] \in BodyPcs \cup {"done"}
  /\ \A p \in Procs : secret[p] # <<>> /\ result[p].msg # "aquire failed"
  /\ \E p \in Procs : Holder(p)

\* C5: once a lease has expired and another caller holds the lease, every
\* release and every extend of the stale holder (heartbeat tick or wrapper
\* cleanup) fails and leaves the store, so the new lease, unchanged.
C5_StaleHolderHarmless ==
  [][\A p \in Procs :
       (IsPresent(Lease) /\ Lease.val # secret[p]) =>
          /\ ReleaseStep(p) =>
               (master' = master /\ relResult'[p] = "release failed")
          /\ HeartbeatStep(p) =>
               (master' = master /\ extResult'[p] = "extend failed")
    ]_vars

\* the stale holder's extend and release have both failed under the new lease
C5_Witness ==
  /\ leaseLost
  /\ extResult["A"] = "extend failed"
  /\ relResult["A"] = "release failed"
  /\ Holder("B")

\* C6: a caller that finds the key on the replica returns the value read
\* there and has done nothing on the master: no command sent, no secret
\* generated, no interval, no release, no write, no populate invocation.
C6_ReplicaShortCircuit ==
  /\ [](\A p \in Procs : result[p].src = "replica" =>
          /\ pc[p] = "done"
          /\ ~touched[p] /\ ~wrote[p] /\ calls[p] = 0
          /\ secret[p] = <<>> /\ ~extender[p] /\ ~relPending[p])
  /\ [][\A p \in Procs :
          (/\ pc[p] = "idle" /\ pc'[p] # "idle"
           /\ get(replica, Key) \notin {Null, DecodeError})
          => /\ result'[p] = Ok(get(replica, Key), "replica")
             /\ pc'[p] = "done"
             /\ master' = master
       ]_vars

\* a caller returned the replica's value while the master holds neither the
\* key nor a lease
C6_Witness ==
  \E p \in Procs :
    /\ result[p] = Ok(ReplicaVal, "replica")
    /\ ~IsPresent(master[Key]) /\ ~IsPresent(Lease)

\* C7: a lease holder whose re-read finds the key on the master returns the
\* value read there, without invoking the populate function and without
\* writing to the master.
C7_RecheckInsideLease ==
  /\ [](\A p \in Procs : result[p].src = "master" =>
          (calls[p] = 0 /\ ~wrote[p]))
  /\ [][\A p \in Procs :
          (/\ pc[p] = "getMaster" /\ pc'[p] \notin {"getMaster", "crashed"}
           /\ get(master, Key) \notin {Null, DecodeError})
          => /\ result'[p] = Ok(get(master, Key), "master")
             /\ pc'[p] = "finally"
             /\ master' = master
             /\ calls' = calls
       ]_vars

\* a holder is leaving the body with the value it found on the master
C7_Witness ==
  \E p \in Procs :
    pc[p] = "finally" /\ result[p].src = "master" /\ Holder(p)

\* C8: on a miss the holder has invoked the populate function once, its SET
\* stores the result v under the key with the given TTL, the call returns v,
\* and a read of the master then yields v.
C8_WriteThrough ==
  [][\A p \in Procs :
       (pc[p] = "set" /\ pc'[p] = "finally")
       => /\ calls[p] = 1
          /\ IsPresent(master'[Key])
          /\ master'[Key].exp = now + ttlMs[p]
          /\ result'[p] = Ok(value[p], "populate")
          /\ get(master', Key) = value[p]
    ]_vars

\* C9: a caller that was refused the lease while the holder was populating,
\* acquired it later and found the holder's value on the master has not
\* invoked its own populate function, and both callers return the same value.
C9_ContendedPopulation ==
  \A p, q \in Procs :
    (/\ p # q /\ ~leaseLost
     /\ waited[p] /\ pc[p] = "done" /\ result[p].src = "master"
     /\ wrote[q] /\ pc[q] = "done" /\ result[q].st = "ok")
    => (calls[p] = 0 /\ result[p].v = result[q].v)

\* C10: a caller whose aquire ran out of its retry budget fails with 'aquire
\* failed' without ever invoking the populate function, starting the extender,
\* issuing a release or writing to the master; the failing attempt happens at
\* or after the budget, on a held lease, and changes neither the master nor
\* any other caller, so the holder goes on undisturbed.
C10_AquireTimeout ==
  /\ [](\A p \in Procs : result[p].msg = "aquire failed" =>
          /\ pc[p] = "done" /\ result[p].st = "err"
          /\ calls[p] = 0 /\ ~wrote[p]
          /\ ~extender[p] /\ extResult[p] = ""
          /\ ~relPending[p] /\ relResult[p] = "")
  /\ [][\A p \in Procs :
          (result[p].st = "none" /\ result'[p].msg = "aquire failed")
          => /\ now - startTime[p] >= tmo[p]
             /\ IsPresent(Lease)
             /\ master' = master
             /\ \A q \in Procs \ {p} :
                  /\ pc'[q] = pc[q] /\ value'[q] = value[q]
                  /\ result'[q] = result[q] /\ extender'[q] = extender[q]
       ]_vars

\* one caller timed out on the lease while the other populated, wrote and
\* returned its value
C10_Witness ==
  \E p, q \in Procs :
    /\ result[p].msg = "aquire failed" /\ waited[p]
    /\ wrote[q] /\ pc[q] = "done" /\ result[q].st = "ok"
    /\ IsPresent(master[Key])

\* C11: a call of aquire always ends: whenever its budget ends within the
\* horizon of the clock, a caller that is attempting or sleeping eventually
\* leaves the retry loop; an attempt made on a held lease once the budget has
\* elapsed ends the call with 'aquire failed', and no call fails earlier.
C11_AquireTerminates ==
  /\ [][\A p \in Procs :
          /\ (TrySetStep(p) /\ IsPresent(Lease)
                 /\ now - startTime[p] >= tmo[p])
               => (result'[p] = Failed("aquire failed") /\ pc'[p] = "done")
          /\ (result[p].st = "none" /\ result'[p].msg = "aquire failed")
               => (TrySetStep(p) /\ now - startTime[p] >= tmo[p])
       ]_vars
  /\ \A p \in Procs :
       (pc[p] \in {"trySet", "sleep"} /\ startTime[p] + tmo[p] <= MaxTime)
         ~> (pc[p] \notin {"trySet", "sleep"})

\* a caller gave up on a lease that its holder has kept alive by a heartbeat
\* while still populating
C11_Witness ==
  \E p, q \in Procs :
    /\ result[p].msg = "aquire failed"
    /\ Holder(q) /\ pc[q] = "populating" /\ extResult[q] = "extended"

\* C12: a contender waiting in the retry loop makes its next attempt no later
\* than the end of its budget; an attempt that finds the lease absent
\* (released or expired, and not taken by another contender) succeeds and
\* stores the contender's secret; and a contender waiting on an absent lease
\* eventually holds it unless another contender holds it first.
C12_EventualAcquisition ==
  /\ [](\A p \in Procs :
          pc[p] = "sleep" => wakeAt[p] <= startTime[p] + tmo[p])
  /\ [][\A p \in Procs :
          (TrySetStep(p) /\ ~IsPresent(Lease))
            => /\ AquiredStep(p)
               /\ master'[LeaseKey] =
                    [val |-> secret[p], exp |-> now + LockTimeMs]
       ]_vars
  /\ \A p \in Procs :
       (pc[p] \in {"trySet", "sleep"} /\ ~IsPresent(Lease)
          /\ wakeAt[p] <= MaxTime)
         ~> (Holder(p) \/ \E q \in Procs \ {p} : Holder(q))

\* a contender that was refused while the holder populated holds the lease
\* after the holder's release
C12_Witness ==
  \E p, q \in Procs :
    /\ waited[p] /\ Holder(p) /\ pc[p] = "getMaster"
    /\ relResult[q] = "released"

\* C13: when the release of a handle runs while the lease still holds the
\* handle's secret, the release succeeds, the lease key is absent afterwards,
\* and a set-if-absent on the lease key then succeeds at once.
C13_OwnerRelease ==
  [][\A p \in Procs :
       (ReleaseStep(p) /\ Holder(p))
         => /\ relResult'[p] = "released"
            /\ ~IsPresent(master'[LeaseKey])
            /\ setNX(master', LeaseKey, <<"next">>, LockTimeMs).res = "OK"
            /\ master'[Key] = master[Key]
    ]_vars

\* the owner released its lease and the other caller acquired it without
\* ever having been refused
C13_Witness ==
  \E p, q \in Procs :
    /\ relResult[p] = "released" /\ ~leaseLost
    /\ Holder(q) /\ pc[q] = "getMaster" /\ ~waited[q] /\ attempt[q] = 0

\* the populate function of p settles without a value
PopulateFailsStep(p) ==
  /\ pc[p] = "populating" /\ pc'[p] \notin {"populating", "crashed"}
  /\ value'[p] = value[p]

\* release() has been called by the wrapper of p
ReleaseIssued(p) == relPending[p] \/ relResult[p] # ""

\* C14: when the populate function fails, the call fails with that error, the
\* failing step and the caller's cleanup write nothing under the key, the
\* error stays the call's outcome, and once it has reached the caller the
\* extender is stopped and the release has been issued.
C14_PopulateFailure ==
  /\ [](\A p \in Procs : result[p].msg = "populate failed" =>
          /\ result[p].st = "err" /\ calls[p] = 1 /\ ~wrote[p]
          /\ pc[p] \in {"finally", "done", "crashed"}
          /\ pc[p] = "done" => (~extender[p] /\ ReleaseIssued(p)))
  /\ [][\A p \in Procs :
          /\ PopulateFailsStep(p) =>
               /\ result'[p] = Failed("populate failed")
               /\ pc'[p] = "finally"
               /\ master' = master
          /\ result[p].msg = "populate failed" =>
               /\ result'[p] = result[p]
               /\ master'[Key] # master[Key] =>
                    \/ now' = now + 1
                    \/ \E q \in Procs \ {p} : wrote'[q]
       ]_vars

\* a call failed with the populate error, its lease is released and the key
\* is still absent from the master
C14_Witness ==
  \E p \in Procs :
    /\ result[p] = Failed("populate failed") /\ pc[p] = "done"
    /\ relResult[p] = "released" /\ ~IsPresent(master[Key])

\* the wrapper of p ran its body: aquire succeeded
Acquired(p) == secret[p] # <<>> /\ result[p].msg # "aquire failed"

\* C15: a call that acquired the lease reaches its caller only with the
\* extender stopped and the release issued; the release is issued once, by
\* the step that hands the body's outcome unchanged to the caller, and no
\* heartbeat extend of that call runs once its release has been issued.
C15_CleanupOnExit ==
  /\ [](\A p \in Procs :
          (pc[p] = "done" /\ Acquired(p))
            => (~extender[p] /\ ReleaseIssued(p)))
  /\ [][\A p \in Procs :
          /\ (relPending'[p] /\ ~relPending[p]) =>
               /\ ~ReleaseIssued(p)
               /\ pc[p] = "finally" /\ pc'[p] = "done"
               /\ ~extender'[p]
               /\ result'[p] = result[p]
          /\ (pc[p] = "finally" /\ pc'[p] = "done") =>
               (relPending'[p] /\ result[p].st \in {"ok", "err"})
          /\ HeartbeatStep(p) => (~ReleaseIssued(p) /\ pc[p] \in BodyPcs)
       ]_vars

\* a call that populated under a renewed lease has returned and its release
\* has run
C15_Witness ==
  \E p \in Procs :
    /\ pc[p] = "done" /\ result[p].src = "populate"
    /\ extResult[p] = "extended" /\ relResult[p] = "released"

\* C16: a failed heartbeat extend or a failed cleanup release changes neither
\* the position of the call, nor the populate function's value, nor the
\* call's outcome, and a call whose lock maintenance has failed goes on
\* through its body without being interrupted.
C16_MaintenanceFailureHarmless ==
  [][\A p \in Procs :
       /\ ((HeartbeatStep(p) /\ extResult'[p] = "extend failed")
             \/ (ReleaseStep(p) /\ relResult'[p] = "release failed"))
            => /\ pc'[p] = pc[p] /\ value'[p] = value[p]
               /\ result'[p] = result[p] /\ calls'[p] = calls[p]
       /\ (unhandled[p] # {} /\ pc[p] \in BodyPcs) => pc'[p] # "crashed"
    ]_vars

\* C17: no failure of a heartbeat extend or of the cleanup release leaves the
\* wrapper: none becomes the outcome of the call and none is an unhandled
\* rejection of the caller's process.
C17_FailuresSwallowed ==
  \A p \in Procs :
    /\ unhandled[p] = {}
    /\ result[p].msg \notin {"extend failed", "release failed"}

\* a local caller makes its call of inAppCacheAsideFunc
LCallStep(c) == lpc[c] = "idle" /\ lpc'[c] # "idle"
Returned == {c \in LCallers : lret[c].h # 0}

\* C18: a call that finds an entry for the key returns the cached handle and
\* does not invoke the compute function; a call that finds none invokes it
\* once, stores the still pending handle and returns it; so the compute
\* function has been invoked at most once more than entries have left the
\* cache, and with no entry lost every call so far returned the handle of
\* the single invocation made by the first call.
C18_LocalGuard ==
  /\ [](/\ Len(handles) <= 1 + evictions
        /\ (evictions = 0 /\ Returned # {}) =>
              /\ Len(handles) = 1 /\ inAppStore.h = 1
              /\ \A c \in Returned : lret[c].h = 1
              /\ Cardinality({c \in Returned : lret[c].fresh}) = 1)
  /\ [][\A c \in LCallers : LCallStep(c) =>
          IF inAppStore.h # 0
            THEN /\ handles' = handles /\ inAppStore' = inAppStore
                 /\ lret'[c].h = inAppStore.h /\ ~lret'[c].fresh
            ELSE /\ Len(handles') = Len(handles) + 1
                 /\ handles'[Len(handles')] = Pending
                 /\ inAppStore'.h = Len(handles')
                 /\ lret'[c].h = Len(handles') /\ lret'[c].fresh
       ]_vars

\* three callers share the handle of one invocation; two of them arrived
\* while it was pending and it has settled since
C18_Witness ==
  /\ evictions = 0 /\ Len(handles) = 1 /\ handles[1].st = "ok"
  /\ \A c \in LCallers : lpc[c] = "done" /\ lret[c].h = 1
  /\ Cardinality({c \in LCallers : ~lret[c].fresh /\ lret[c].pend}) = 2

\* C19: a call of redisCacheOnlyReadThrough has the remote cache-aside call
\* made for the key (by itself, or still pending in the cache when it
\* arrives), returns the value that call resolved with, and leaves no entry
\* for the key in the in-process cache when it returns.
C19_RemoteOnly ==
  [][\A c \in LCallers :
       /\ (LCallStep(c) /\ lret'[c].mode = "only") =>
            \/ lret'[c].fresh
            \/ handles[lret'[c].h].st = "pending"
       /\ (lpc[c] = "awaiting" /\ lpc'[c] = "done" /\ lret'[c].st = "ok") =>
            /\ lret'[c].v = handles[lret[c].h].v
            /\ inAppStore' = NoEntry
    ]_vars

\* C20: of two calls that both found the key uncached, when the call of q
\* changed the key between the watch and the commit of p, p has failed with
\* the conflict error, q has succeeded, and the key holds the marshalled
\* result of q.
C20_OptimisticConflict ==
  \A p, q \in Procs :
    (/\ p # q /\ opc[p] = "done" /\ opc[q] = "done"
     /\ oconflict[p] /\ ores[p].msg # "populate failed")
    => /\ ores[p] = Failed(ConflictMsg)
       /\ ores[q].st = "ok" /\ ores[q].src = "populate"
       /\ master[Key].val = msgpackEncDec_encode(ores[q].v)

\* the position of a call of getOrSetWithOptimisticLock in its code
OptRank(st) ==
  CASE st = "idle" -> 0
    [] st = "get" -> 1
    [] st = "populating" -> 2
    [] st = "exec" -> 3
    [] OTHER -> 4

\* C21: one call of getOrSetWithOptimisticLock invokes the populate function
\* at most once and attempts at most one commit: it never goes back to an
\* earlier point of its code, the populate function is invoked and the
\* commit is attempted by one step each; a commit that the store rejects
\* (the key was modified on the connection since the watch) ends the call
\* with the conflict error and leaves the store as it was.
C21_SingleAttempt ==
  [][\A p \in Procs :
       /\ OptRank(opc'[p]) >= OptRank(opc[p])
       /\ (opc[p] # opc'[p] /\ opc[p] \in {"populating", "exec"})
            => OptRank(opc'[p]) > OptRank(opc[p])
       /\ (opc[p] = "exec" /\ opc'[p] # "exec"
            /\ watching[oclient[p]] /\ dirty[oclient[p]])
            => /\ opc'[p] = "done"
               /\ ores'[p] = Failed(ConflictMsg)
               /\ master' = master
    ]_vars

\* the commit of A was rejected after B, on another connection, had
\* committed its value: A has failed with the conflict error and the key
\* holds what B wrote
C21_Witness ==
  /\ oclient["A"] # oclient["B"]
  /\ opc["A"] = "done" /\ ores["A"] = Failed(ConflictMsg)
  /\ opc["B"] = "done" /\ ores["B"].src = "populate"
  /\ master[Key].val = msgpackEncDec_encode(ores["B"].v)

\* callers that went past the replica into the lease-guarded path
OnLockPath == {p \in Procs : pc[p] \in {"trySet", "sleep"} \cup BodyPcs}

\* a populate function did not terminate successfully
PopulateFaulted ==
  \E p \in Procs : pc[p] = "crashed" \/ result[p].msg = "populate failed"

\* C22: with callers contending for the key through cacheAsideFunc, under
\* the scheduling of BodyFairness and with populate functions that settle
\* with a value, once a caller is on the lease-guarded path the key gets
\* populated on the master (it is found there, or a caller has written it);
\* and a call that invoked its populate function and returned without an
\* error has written the key.
C22_EventualProgress ==
  /\ [](\A p \in Procs :
         (pc[p] = "done" /\ calls[p] = 1 /\ result[p].st # "err")
         => wrote[p])
  /\ (OnLockPath # {})
       ~> \/ IsPresent(master[Key])
          \/ \E q \in Procs : wrote[q]
          \/ PopulateFaulted

\* both callers were on the lease-guarded path at once, one waited while the
\* other populated, and the key is on the master with no fault anywhere
C22_Witness ==
  /\ ~PopulateFaulted /\ ~leaseLost
  /\ \E p, q \in Procs :
       /\ p # q /\ wrote[p] /\ waited[q]
       /\ pc[p] = "done" /\ pc[q] \in BodyPcs \cup {"done"}
       /\ result[q].msg # "aquire failed"
  /\ IsPresent(master[Key])

\* the process of p stopped while the lease held its secret
DeadHolder(p) == pc[p] = "crashed" /\ Holder(p)

\* C23: a lease is always stored with an expiry at most lockTimeMs ahead;
\* when a holder's process stops without releasing, nothing renews its lease
\* and the lease is gone once that expiry has passed; and a contender that
\* is retrying with a budget reaching past that expiry then holds the lease
\* (unless the store fails its attempt).
C23_NoDeadlock ==
  /\ [](IsPresent(Lease)
          => Lease.exp > now /\ Lease.exp <= now + LockTimeMs)
  /\ [][\A p \in Procs :
          (DeadHolder(p) /\ IsPresent(Lease'))
            => \/ Lease' = Lease
               \/ \E q \in Procs \ {p} : AquiredStep(q)
       ]_vars
  /\ ((\E p \in Procs : DeadHolder(p)) /\ Lease.exp <= MaxTime)
       ~> ~(\E p \in Procs : DeadHolder(p))
  /\ (\E p, q \in Procs :
        /\ DeadHolder(p) /\ pc[q] \in {"trySet", "sleep"}
        /\ Lease.exp <= startTime[q] + tmo[q]
        /\ startTime[q] + tmo[q] <= MaxTime)
       ~> (\E q \in Procs :
             \/ Holder(q) /\ pc[q] # "crashed"
             \/ result[q].msg = "store error")

\* q was refused while p populated; the process of p stopped holding the
\* lease and never released it; q holds the lease now
C23_Witness ==
  \E p, q \in Procs :
    /\ pc[p] = "crashed" /\ unhandled[p] = {} /\ relResult[p] = ""
    /\ ~leaseLost
    /\ waited[q] /\ Holder(q) /\ pc[q] = "getMaster"

\* C24: the retry executor of aquire waits and retries only after an attempt
\* that was refused because the lease is held; an attempt that the store
\* fails (an error that is not an AquireLockError) ends the call at once
\* with that error, whatever is left of the budget: no wait is started, no
\* further attempt is made and the store is as it was.
C24_OnlyContentionRetried ==
  [][\A p \in Procs :
       /\ (pc[p] = "trySet" /\ pc'[p] = "sleep")
            => /\ IsPresent(Lease) /\ Lease' = Lease
               /\ result'[p] = result[p]
       /\ (pc[p] = "trySet" /\ result'[p].msg = "aquire failed")
            => IsPresent(Lease)
       /\ (result[p].msg # "store error" /\ result'[p].msg = "store error")
            => /\ pc[p] = "trySet" /\ pc'[p] = "done"
               /\ master' = master
               /\ wakeAt'[p] = 0 /\ attempt'[p] = 0
               /\ ~extender'[p]
    ]_vars

\* p was refused while q populated, waited, and its next attempt was failed
\* by the store before its budget was over; q still holds the lease
C24_Witness ==
  \E p, q \in Procs :
    /\ pc[p] = "done" /\ result[p].msg = "store error" /\ waited[p]
    /\ now < 3
    /\ Holder(q) /\ pc[q] = "populating"

InBody == {p \in Procs : pc[p] \in {"getMaster", "invoke", "populating", "set"}}

\* C26 (as stated): no two get-or-set bodies run at the same time, and a
\* body starts only when no other is running.
C26_BodiesSerialized ==
  /\ [](Cardinality(InBody) <= 1)
  /\ [][\A p \in Procs : AquiredStep(p) => InBody \ {p} = {}]_vars

\* C26 (amended): as long as no lease expired under a caller that was still
\* inside the wrapper, no two get-or-set bodies run at the same time, and a
\* body starts only when no other is running.
C26_BodiesSerializedUnderLease ==
  /\ [](~leaseLost => Cardinality(InBody) <= 1)
  /\ [][\A p \in Procs :
          (~leaseLost /\ AquiredStep(p)) => InBody \ {p} = {}]_vars

\* two bodies ran one after the other: q was refused while p populated, and
\* ran its own body, finding the value of p, after p had released
C26_Witness ==
  \E p, q \in Procs :
    /\ ~leaseLost
    /\ pc[p] = "done" /\ wrote[p] /\ relResult[p] = "released"
    /\ waited[q] /\ pc[q] = "done" /\ result[q].src = "master"
    /\ relResult[q] = "released"

\* the step by which p writes the value of its populate function
WriteStep(p) == pc[p] = "set" /\ wrote'[p] /\ ~wrote[p]

\* C28 (as stated): whenever a caller writes the populated value to the
\* master, the lease is present and holds that caller's secret.
C28_WriteByHolder ==
  [][\A p \in Procs : WriteStep(p) => Holder(p)]_vars

\* C28 (amended): as long as no lease expired under a caller that was still
\* inside the wrapper, whenever a caller writes the populated value to the
\* master, the lease is present and holds that caller's secret.
C28_WriteByHolderUnderLease ==
  [][\A p \in Procs : (~leaseLost /\ WriteStep(p)) => Holder(p)]_vars

\* p has written its value holding a lease that its heartbeat had renewed
C28_Witness ==
  \E p \in Procs :
    /\ ~leaseLost /\ wrote[p] /\ pc[p] = "finally"
    /\ Holder(p) /\ extResult[p] = "extended"

\* C27 (as stated): the name under which the lease of a populate key is
\* stored never is the cached-value key of any populate key: no call's
\* cached-value key is that name, and no lease is found under a
\* cached-value key.
C27_LeaseKeyNamespace ==
  (lockedKey # <<>> /\ cachedKey # <<>>)
    => /\ wrapperLeaseName(lockedKey) # cachedKey
       /\ nameGet(names, cachedKey).what # "lease"

\* C27 (amended): the lease of populate key k is stored under k with the
\* lock namespace put in front twice ('simpleLock.simpleLock.' + k); that
\* name differs from k, and from every populate key that does not itself
\* begin with the lock namespace: with such keys a lease and a cached value
\* are never under the same name, whichever is written first.
C27_LeaseKeyOutsidePlainKeys ==
  (lockedKey # <<>> /\ cachedKey # <<>>)
    => /\ wrapperLeaseName(lockedKey)
            = <<"simpleLock", "simpleLock">> \o lockedKey
       /\ wrapperLeaseName(lockedKey) # lockedKey
       /\ (cachedKey = lockedKey \/ cachedKey[1] # "simpleLock")
            => /\ wrapperLeaseName(lockedKey) # cachedKey
               /\ nameGet(names, cachedKey).what # "lease"
               /\ nameGet(names, wrapperLeaseName(lockedKey)).what # "value"
               /\ Cardinality(names) =
                    Cardinality({e.what : e \in names})

\* the lease of a key and the cached value of the same key are both in the
\* store, under two names
C27_Witness ==
  /\ lockedKey # <<>> /\ cachedKey = lockedKey
  /\ nameGet(names, wrapperLeaseName(lockedKey)).what = "lease"
  /\ nameGet(names, cachedKey).what = "value"
  /\ Cardinality(names) = 2

\* C29: the lease is absent or holds the secret of one caller, the one whose
\* aquire succeeded last: a step leaves a lease present only with the
\* secret it held before or with the secret of the aquire that succeeds in
\* that step, and an aquire succeeds only on an absent lease, so the secret
\* changes only across an expiry or a release; an extend that succeeds is
\* made with the stored secret, keeps it and sets the expiry to lockTimeMs
\* from now.
C29_LeaseToken ==
  /\ [](/\ \A p, q \in Procs :
            (p # q /\ secret[p] # <<>>) => secret[p] # secret[q]
        /\ IsPresent(Lease) => \E p \in Procs : Lease.val = secret[p])
  /\ [][/\ IsPresent(Lease') =>
             \/ IsPresent(Lease) /\ Lease'.val = Lease.val
             \/ \E p \in Procs : AquiredStep(p) /\ Lease'.val = secret[p]
        /\ \A p \in Procs :
             /\ AquiredStep(p) => ~IsPresent(Lease)
             /\ (HeartbeatStep(p) /\ extResult'[p] = "extended")
                  => /\ IsPresent(Lease) /\ Lease.val = secret[p]
                     /\ Lease' = [val |-> Lease.val,
                                  exp |-> now + LockTimeMs]
       ]_vars

\* the lease holds the secret of q, renewed by its heartbeat, after p had
\* held and released it
C29_Witness ==
  \E p, q \in Procs :
    /\ p # q /\ relResult[p] = "released"
    /\ Holder(q) /\ extResult[q] = "extended"
    /\ Lease.exp = now + LockTimeMs

\* the interval of p has fired at every time it was due so far and none of
\* its extends has failed
OnSchedule(p) == now <= nextBeat[p] /\ extResult[p] # "extend failed"

\* C30: from the acquisition until the wrapper's finally, while the interval
\* of the holder has fired on schedule and its extends have succeeded, the
\* lease is present with the holder's secret, however long the populate
\* function takes; and an extend made on schedule after successful ones
\* succeeds and puts the expiry lockTimeMs ahead.
C30_HeartbeatKeepsLease ==
  /\ [](\A p \in Procs : (extender[p] /\ OnSchedule(p)) => Holder(p))
  /\ [][\A p \in Procs :
          (HeartbeatStep(p) /\ OnSchedule(p))
            => /\ extResult'[p] = "extended"
               /\ Lease' = [val |-> secret[p], exp |-> now + LockTimeMs]
       ]_vars

\* at the end of the clock's horizon p is still populating under a lease
\* that its heartbeat has just renewed, while q has used up its budget
\* waiting for it
C30_Witness ==
  \E p, q \in Procs :
    /\ now = MaxTime /\ ~leaseLost
    /\ pc[p] = "populating" /\ extender[p] /\ OnSchedule(p)
    /\ extResult[p] = "extended" /\ Lease.exp = now + LockTimeMs
    /\ waited[q] /\ result[q].msg = "aquire failed"

\* C31: when the read of getOrSetWithOptimisticLock finds the key present,
\* the call ends in that step with the value it read: the connection watches
\* nothing afterwards, the populate function is not invoked (the call never
\* is at its populate or at its commit), and the store is as it was.
C31_OptimisticHit ==
  [][\A p \in Procs :
       (opc[p] = "get" /\ opc'[p] # "get" /\ IsPresent(master[Key])
        /\ get(master, Key).t # "err")
         => /\ opc'[p] = "done"
            /\ ores'[p] = Ok(get(master, Key), "master")
            /\ ~watching'[oclient[p]] /\ ~dirty'[oclient[p]]
            /\ master' = master
            /\ ovalue'[p] = ovalue[p] /\ ovalue[p] = Null
    ]_vars

\* q has committed its value and p, watching on another connection, has
\* found it there
C31_Witness ==
  \E p, q \in Procs :
    /\ oclient[p] # oclient[q]
    /\ opc[q] = "done" /\ ores[q].src = "populate"
    /\ opc[p] = "done" /\ ores[p].src = "master" /\ ovalue[p] = Null
    /\ ~watching[oclient[p]]

\* C32: with the marshaller pair of create(), when the populate function has
\* yielded null the SET of getOrSet fails with 'marshall null data': the call
\* fails with that error, nothing is written to the master, and the call
\* leaves through the wrapper's finally, so that when it has returned its
\* interval is cleared and its release was issued.
C32_NullPopulate ==
  /\ [][\A p \in Procs :
          (pc[p] = "set" /\ value[p] = Null
           /\ pc'[p] \notin {"set", "crashed"})
            => /\ pc'[p] = "finally"
               /\ result'[p] = Failed("marshall null data")
               /\ master' = master
               /\ ~wrote'[p]
       ]_vars
  /\ [](\A p \in Procs :
          (pc[p] = "done" /\ result[p].msg = "marshall null data")
            => /\ ~extender[p] /\ ReleaseIssued(p)
               /\ ~wrote[p] /\ calls[p] = 1)

\* a call whose populate function yielded null has failed with the marshall
\* error; the key is not on the master and the lease was released
C32_Witness ==
  \E p \in Procs :
    /\ pc[p] = "done" /\ result[p] = Failed("marshall null data")
    /\ ~extender[p] /\ relResult[p] = "released"
    /\ ~IsPresent(master[Key]) /\ ~IsPresent(Lease)
    /\ \A q \in Procs \ {p} : pc[q] = "idle"

\* C33: a call of inAppCacheAsideFunc that finds an entry for the key (its
\* handle resolved or not) returns the handle of that entry and neither
\* invokes the compute function nor changes the cache; an entry leaves the
\* cache only by its TTL, a remove or a purge; and a call that finds no
\* entry invokes the compute function once and stores the new handle.
C33_LocalRecompute ==
  [][/\ \A c \in LCallers :
          LCallStep(c) =>
            IF inAppStore # NoEntry
              THEN /\ handles' = handles /\ inAppStore' = inAppStore
                   /\ lret'[c].h = inAppStore.h /\ ~lret'[c].fresh
              ELSE /\ Len(handles') = Len(handles) + 1
                   /\ SubSeq(handles', 1, Len(handles)) = handles
                   /\ inAppStore'.h = Len(handles')
                   /\ lret'[c].h = Len(handles') /\ lret'[c].fresh
     /\ (inAppStore # NoEntry /\ inAppStore' # inAppStore)
          => inAppStore' = NoEntry /\ evictions' = evictions + 1
    ]_vars

\* the first handle resolved and served a later caller from the cache; after
\* the entry was gone the next caller had the compute function invoked
\* again, once, and its handle is the one in the cache
C33_Witness ==
  /\ Len(handles) = 2 /\ handles[1].st = "ok" /\ evictions = 1
  /\ inAppStore.h = 2
  /\ \E c1, c2, c3 \in LCallers :
       /\ lret[c1].h = 1 /\ lret[c1].fresh
       /\ lret[c2].h = 1 /\ ~lret[c2].fresh /\ ~lret[c2].pend
       /\ lret[c3].h = 2 /\ lret[c3].fresh
       /\ lret[c1].mode = "through" /\ lret[c2].mode = "through"

\* C34: when the handle of a compute call settles with a failure its entry
\* stays in the cache as it was, and a call that finds the entry of a failed
\* handle returns that handle, with its failure, without invoking the
\* compute function.
C34_FailedHandleCached ==
  [][/\ \A h \in 1..Len(handles) :
          (handles[h].st = "pending" /\ handles'[h].st = "err")
            => inAppStore' = inAppStore
     /\ \A c \in LCallers :
          (/\ LCallStep(c) /\ inAppStore # NoEntry
           /\ handles[inAppStore.h].st = "err")
            => /\ handles' = handles /\ inAppStore' = inAppStore
               /\ lret'[c].h = inAppStore.h
               /\ ~lret'[c].fresh /\ ~lret'[c].pend
    ]_vars

\* the only compute call failed; a caller that came after the failure got
\* the failed handle from the cache, where it still is
C34_Witness ==
  /\ Len(handles) = 1 /\ handles[1].st = "err" /\ inAppStore.h = 1
  /\ \E c, d \in LCallers :
       /\ lret[c].h = 1 /\ lret[c].fresh /\ lret[c].mode = "through"
       /\ lret[d].h = 1 /\ ~lret[d].fresh /\ ~lret[d].pend
       /\ lpc[d] = "done"

\* C35: when a call of redisCacheOnlyReadThrough settles, with a value or
\* with the failure of the remote call, the in-process cache holds no entry
\* for the key.
C35_RemoteOnlyEvicts ==
  [][\A c \in LCallers :
       (lpc[c] = "awaiting" /\ lpc'[c] = "done") => inAppStore' = NoEntry
    ]_vars

\* the same for the calls that settle with a value
C35_EvictsOnSuccess ==
  [][\A c \in LCallers :
       (lpc[c] = "awaiting" /\ lpc'[c] = "done" /\ lret'[c].st = "ok")
         => inAppStore' = NoEntry
    ]_vars

\* C36: the step by which a call of getOrSetWithOptimisticLock ends, on any
\* of its paths (hit, commit, rejected commit, failure of the populate
\* function, of the decoding or of the store), leaves the connection of the
\* call watching nothing; and a connection watches only while a call that
\* was made on it is between its watch and its end.
C36_WatchCleared ==
  /\ [][\A p \in Procs :
          (opc[p] # "done" /\ opc'[p] = "done")
            => ~watching'[oclient[p]] /\ ~dirty'[oclient[p]]
       ]_vars
  /\ [](\A cl \in Clients :
          (watching[cl] \/ dirty[cl])
            => \E p \in Procs :
                 oclient[p] = cl /\ opc[p] \in {"get", "populating", "exec"})

\* on one connection the populate function of p failed and a command of q
\* was failed by the store, and the connection watches nothing
C36_Witness ==
  \E p, q \in Procs :
    /\ p # q /\ oclient[p] = oclient[q]
    /\ opc[p] = "done" /\ ores[p].msg = "populate failed"
    /\ opc[q] = "done" /\ ores[q].msg = "store error"
    /\ ~watching[oclient[p]] /\ ~dirty[oclient[p]]

\* C37: a call made with some arguments while the cache holds an entry for
\* the key gets the handle of that entry, whatever arguments the call behind
\* it was made with: func is not invoked with the new arguments, and what
\* the handle resolves with is what func computed for the arguments of the
\* call that created the entry; so func is invoked at most once more than
\* entries have left the cache, whatever the arguments of the calls.
C37_KeyIsIdentity ==
  /\ [](/\ Len(funcArgs) = Len(handles)
        /\ Len(funcArgs) <= evictions + 1
        /\ \A h \in 1..Len(handles) :
             handles[h].st = "ok" => handles[h].v = func(funcArgs[h]))
  /\ [][\A c \in LCallers :
          (LCallStep(c) /\ inAppStore # NoEntry)
            => /\ funcArgs' = funcArgs /\ handles' = handles
               /\ lret'[c].h = inAppStore.h /\ ~lret'[c].fresh
       ]_vars

\* argsB was passed after argsA with the entry still cached: the caller
\* holds the handle of the call made with argsA, resolved with the result
\* for argsA, and func was invoked once, with argsA
C37_Witness ==
  \E c, d \in LCallers :
    /\ callArgs[c] = "argsA" /\ lret[c].fresh /\ lret[c].h = 1
    /\ callArgs[d] = "argsB" /\ ~lret[d].fresh /\ lret[d].h = 1
    /\ funcArgs = <<"argsA">>
    /\ handles[1] = [st |-> "ok", v |-> func("argsA")]
    /\ func("argsB") # handles[1].v


\* C38: codec round trip. While the master holds what a caller's SET stored
\* for the non-null value v its populate function returned, a read of the
\* key with the same marshaller pair yields v; and redisCacheWrite stores
\* its data so that a read of the key yields the data.
C38_CodecRoundTrip ==
  /\ [](\A p \in Procs :
          ( /\ wrote[p] /\ result[p].st = "ok" /\ result[p].v # Null
            /\ IsPresent(master[Key])
            /\ master[Key].val = marshallFunc(codec, result[p].v).b )
          => getWith(codec, master, Key) = result[p].v)
  /\ [][(direct.op # "redisCacheWrite" /\ direct'.op = "redisCacheWrite")
          => /\ direct'.res = "OK"
             /\ \E d \in FResults :
                  /\ IsPresent(master'[Key])
                  /\ master'[Key].val = marshallFunc(codec, d).b
                  /\ getWith(codec, master', Key) = d
       ]_vars

\* the string half alone: a caller returned the string 'd' from its
\* populate function and the master, still holding that SET, reads back as
\* something else
C38_StringReadBack ==
  \A p \in Procs :
    ( /\ wrote[p] /\ result[p] = Ok(StrVal, "populate")
      /\ IsPresent(master[Key])
      /\ master[Key].val = marshallFunc(codec, StrVal).b )
    => getWith(codec, master, Key) = StrVal

\* the array half: arrays and objects do round-trip
C38_ObjectReadBack ==
  \A p \in Procs :
    ( /\ wrote[p] /\ result[p] = Ok(ObjVal, "populate")
      /\ IsPresent(master[Key])
      /\ master[Key].val = marshallFunc(codec, ObjVal).b )
    => getWith(codec, master, Key) = ObjVal

\* the redisCacheWrite half alone
C38_WriteReadBack ==
  [][(direct.op # "redisCacheWrite" /\ direct'.op = "redisCacheWrite")
      => /\ direct'.res = "OK"
         /\ \E d \in FResults :
              /\ IsPresent(master'[Key])
              /\ master'[Key].val = marshallFunc(codec, d).b
              /\ getWith(codec, master', Key) = d
    ]_vars

====
